---- MODULE Spec2Model ----
(***************************************************************************)
(* Model of repl.py: main() spawns a target program under a pseudo-        *)
(* terminal, then alternates between p.expect(cmd_prompt) and the          *)
(* prompt_toolkit editor (run), forwarding each answer with p.sendline.    *)
(* Byte strings and texts are sequences of one-element strings; the bytes  *)
(* "xC3" "xA9" are the UTF-8 encoding of one character, "xFF" is a byte    *)
(* that is never valid UTF-8.                                              *)
(***************************************************************************)
EXTENDS Integers, Sequences, FiniteSets, TLC

VARIABLES pc, cmd_prompt, multiline, spawned, targetAlive, pending, buffer,
          before, after, flag_eof, printed, bye, answer, editing_mode,
          edbuf, history, written, nSends, nMatches, closes, exc,
          cursor, vi_input, histFile, histTouched, spawnErr

vars == <<pc, cmd_prompt, multiline, spawned, targetAlive, pending, buffer,
          before, after, flag_eof, printed, bye, answer, editing_mode,
          edbuf, history, written, nSends, nMatches, closes, exc,
          cursor, vi_input, histFile, histTouched, spawnErr>>

(* the editor's cursor offset and Vi input mode *)
edvars == <<cursor, vi_input>>

(* the history file and its directory, and how the spawn went *)
envvars == <<histFile, histTouched, spawnErr>>

(* ------------------------------- bounds -------------------------------- *)
MaxSends == 1
MaxChunk == 3
MaxEdit == 5
MaxLines == 2

(* ------------------------------ constants ------------------------------ *)
None == <<"None">>
NoExc == "none"
EXIT == <<"e", "x", "i", "t">>
LINESEP == <<"\n">>

Prompts ==
    { <<">", " ">>,
      <<"d", "b", ">", " ">>,
      <<"a", "b", "c", "|", "b">>,
      <<"a", ".">> }

Outputs ==
    { <<"d", "b", ">", " ">>,
      <<" ", "xC3", "xA9", "\n", ">", " ">>,
      <<"a", "b", "c">>,
      <<"xFF", ">", " ">>,
      <<">", " ", ">", " ">>,
      <<"b", "y", "e", "\n">> }

(* the prompt of a line-oriented target *)
LinePrompts == { <<">">> }

TypedTexts == { EXIT, <<"l", "s">> }

(* more texts for a user of a line-oriented target: near misses of the
   sentinel and a text outside ASCII *)
TypedLines ==
    TypedTexts \cup { <<"E", "X", "I", "T">>, <<"e", "x", "i", "t", " ">>,
                      <<"l", "e'">> }

(* ------------------------------ sequences ------------------------------ *)
Take(s, k) == SubSeq(s, 1, k)

Drop(s, k) == SubSeq(s, k + 1, Len(s))

(* --------------------------- re.compile/search ------------------------- *)
RECURSIVE SplitAlt(_, _)
SplitAlt(p, cur) ==
    IF p = <<>> THEN <<cur>>
    ELSE IF Head(p) = "|" THEN <<cur>> \o SplitAlt(Tail(p), <<>>)
    ELSE SplitAlt(Tail(p), Append(cur, Head(p)))

Alternatives(p) == SplitAlt(p, <<>>)

AtomMatches(atom, byte) == atom = "." \/ atom = byte

MatchAt(alt, buf, i) ==
    /\ i + Len(alt) - 1 <= Len(buf)
    /\ \A k \in 1..Len(alt) : AtomMatches(alt[k], buf[i + k - 1])

FirstAlt(alts, buf, i) ==
    IF \E a \in 1..Len(alts) : MatchAt(alts[a], buf, i)
    THEN CHOOSE a \in 1..Len(alts) :
            /\ MatchAt(alts[a], buf, i)
            /\ \A b \in 1..(a - 1) : ~MatchAt(alts[b], buf, i)
    ELSE 0

(* mutant: the rightmost occurrence is reported instead of the leftmost *)
Search_Last(p, buf) ==
    LET alts == Alternatives(p)
        hits == { i \in 1..(Len(buf) + 1) : FirstAlt(alts, buf, i) # 0 }
    IN  IF hits = {} THEN [found |-> FALSE, start |-> 0, end |-> 0]
        ELSE LET i == CHOOSE h \in hits : \A g \in hits : h >= g
                 a == FirstAlt(alts, buf, i)
             IN  [found |-> TRUE, start |-> i, end |-> i + Len(alts[a])]

(* mutant: a prefix of the pattern at the end of the buffer counts as a match *)
Search_Partial(p, buf) ==
    LET alts == Alternatives(p)
        part(alt, i) == \A k \in 1..Len(alt) :
                           i + k - 1 <= Len(buf) => AtomMatches(alt[k], buf[i + k - 1])
        hits == { i \in 1..Len(buf) : \E a \in 1..Len(alts) : part(alts[a], i) }
    IN  IF hits = {} THEN [found |-> FALSE, start |-> 0, end |-> 0]
        ELSE LET i == CHOOSE h \in hits : \A g \in hits : h <= g
                 a == CHOOSE b \in 1..Len(alts) : part(alts[b], i)
                 e == i + Len(alts[a])
             IN  [found |-> TRUE, start |-> i,
                  end |-> IF e > Len(buf) + 1 THEN Len(buf) + 1 ELSE e]

Search(p, buf) ==
    LET alts == Alternatives(p)
        hits == { i \in 1..(Len(buf) + 1) : FirstAlt(alts, buf, i) # 0 }
    IN  IF hits = {} THEN [found |-> FALSE, start |-> 0, end |-> 0]
        ELSE LET i == CHOOSE h \in hits : \A g \in hits : h <= g
                 a == FirstAlt(alts, buf, i)
             IN  [found |-> TRUE, start |-> i, end |-> i + Len(alts[a])]

(* number of lines in the editor buffer *)
NumLines(s) == 1 + Cardinality({ i \in 1..Len(s) : s[i] = "\n" })

(* the buffer is empty or the cursor is at the start of a fresh line *)
AtLineStart(s) == IF s = <<>> THEN TRUE ELSE s[Len(s)] = "\n"

(* ------------------------- bytes.decode('utf-8') ----------------------- *)
DecodeError == <<"UnicodeDecodeError">>

RECURSIVE Decode(_)
Decode(bs) ==
    IF bs = <<>> THEN <<>>
    ELSE IF Head(bs) = "xC3"
         THEN IF Len(bs) >= 2 /\ bs[2] = "xA9"
              THEN LET rest == Decode(Drop(bs, 2))
                   IN  IF rest = DecodeError THEN DecodeError
                       ELSE <<"e'">> \o rest
              ELSE DecodeError
    ELSE IF Head(bs) \in {"xA9", "xFF"} THEN DecodeError
    ELSE LET rest == Decode(Tail(bs))
         IN  IF rest = DecodeError THEN DecodeError ELSE <<Head(bs)>> \o rest

(* str.encode('utf-8'), as spawn.send applies it to the text it is given *)
RECURSIVE Encode(_)
Encode(s) ==
    IF s = <<>> THEN <<>>
    ELSE (IF Head(s) = "e'" THEN <<"xC3", "xA9">> ELSE <<Head(s)>>)
         \o Encode(Tail(s))

(* ------------------------------ str.strip ------------------------------ *)
IsSpace(c) == c \in {" ", "\t", "\n", "\r"}

RECURSIVE LStrip(_)
LStrip(s) ==
    IF s # <<>> /\ IsSpace(Head(s)) THEN LStrip(Tail(s)) ELSE s

RECURSIVE RStrip(_)
RStrip(s) ==
    IF s # <<>> /\ IsSpace(s[Len(s)]) THEN RStrip(Take(s, Len(s) - 1)) ELSE s

(* mutant: only leading whitespace is removed *)
Strip_LeftOnly(s) == LStrip(s)

Strip(s) == RStrip(LStrip(s))

(* -------------------------------- Init --------------------------------- *)
InitWith(prompts) ==
    /\ pc = "Start"
    /\ cmd_prompt \in prompts
    /\ multiline \in BOOLEAN
    /\ spawned = FALSE
    /\ targetAlive = FALSE
    /\ pending = <<>>
    /\ buffer = <<>>
    /\ before = None
    /\ after = None
    /\ flag_eof = FALSE
    /\ printed = None
    /\ bye = FALSE
    /\ answer = None
    /\ editing_mode = "EMACS"
    /\ edbuf = <<>>
    /\ history = <<>>
    /\ written = None
    /\ nSends = 0
    /\ nMatches = 0
    /\ closes = 0
    /\ exc = NoExc
    /\ cursor = 0
    /\ vi_input = "INSERT"
    /\ histFile = <<>>
    /\ histTouched = FALSE
    /\ spawnErr = "none"

Init == InitWith(Prompts)

(* main, line 101: pexpect.spawn(args.command, cwd=args.working_dir). A
   command that is not found raises ExceptionPexpect in main. An invalid
   working directory makes os.chdir fail in the forked child only: the child
   dies with a traceback on the pseudo-terminal and spawn returns normally.
   Otherwise the target starts and prints its start-up output. *)
Spawn ==
    /\ pc = "Start"
    /\ \E res \in {"ok", "command", "cwd"}, out \in Outputs :
          /\ spawnErr' = IF res = "ok" THEN "none" ELSE res
          /\ IF res = "command"
             THEN /\ pc' = "Crashed"
                  /\ exc' = "ExceptionPexpect"
                  /\ UNCHANGED <<spawned, targetAlive, pending>>
             ELSE /\ spawned' = TRUE
                  /\ targetAlive' = (res = "ok")
                  /\ pending' = out
                  /\ pc' = "Setup"
                  /\ exc' = exc
    /\ UNCHANGED <<cmd_prompt, multiline, buffer, before, after, flag_eof,
                   printed, bye, answer, editing_mode, edbuf, history,
                   written, nSends, nMatches, closes>>
    /\ UNCHANGED <<edvars, histFile, histTouched>>

(* main, lines 102-108: the history directory is looked up and created,
   PromptSession(history=FileHistory(...)), then load_lexer, which raises
   when the lexer class cannot be imported *)
Setup ==
    /\ pc = "Setup"
    /\ histTouched' = TRUE
    /\ \E ok \in BOOLEAN :
          IF ok
          THEN pc' = "AwaitingPrompt" /\ exc' = exc
          ELSE pc' = "Crashed" /\ exc' = "ImportError"
    /\ UNCHANGED <<cmd_prompt, multiline, spawned, targetAlive, pending,
                   buffer, before, after, flag_eof, printed, bye, answer,
                   editing_mode, edbuf, history, written, nSends, nMatches,
                   closes>>
    /\ UNCHANGED <<edvars, histFile, spawnErr>>

(* the target program exits on its own *)
TargetExit ==
    /\ spawned
    /\ targetAlive
    /\ pc \in {"AwaitingPrompt", "AwaitingInput"}
    /\ targetAlive' = FALSE
    /\ UNCHANGED <<pc, cmd_prompt, multiline, spawned, pending, buffer,
                   before, after, flag_eof, printed, bye, answer,
                   editing_mode, edbuf, history, written, nSends, nMatches,
                   closes, exc>>
    /\ UNCHANGED <<edvars, envvars>>

(* main, line 111: p.expect(args.cmd_prompt); Expecter.new_data/existing_data
   search the whole buffer for the compiled pattern after every read *)
ExpectResult(buf) ==
    LET m == Search(cmd_prompt, buf)
    IN  IF m.found
        THEN /\ before' = Take(buf, m.start - 1)
             /\ after' = SubSeq(buf, m.start, m.end - 1)
             /\ buffer' = Drop(buf, m.end - 1)
             /\ nMatches' = nMatches + 1
             /\ pc' = "Print"
        ELSE /\ buffer' = buf
             /\ UNCHANGED <<before, after, nMatches, pc>>

(* a match is already in the data left over from the previous expect *)
ExpectExisting ==
    /\ pc = "AwaitingPrompt"
    /\ Search(cmd_prompt, buffer).found
    /\ ExpectResult(buffer)
    /\ UNCHANGED <<cmd_prompt, multiline, spawned, targetAlive, pending,
                   flag_eof, printed, bye, answer, editing_mode, edbuf,
                   history, written, nSends, closes, exc>>
    /\ UNCHANGED <<edvars, envvars>>

(* read_nonblocking returns the next k bytes of the target's output *)
ExpectRead ==
    /\ pc = "AwaitingPrompt"
    /\ ~Search(cmd_prompt, buffer).found
    /\ pending # <<>>
    /\ \E k \in 1..MaxChunk :
          /\ k <= Len(pending)
          /\ pending' = Drop(pending, k)
          /\ ExpectResult(buffer \o Take(pending, k))
    /\ UNCHANGED <<cmd_prompt, multiline, spawned, targetAlive, flag_eof,
                   printed, bye, answer, editing_mode, edbuf, history,
                   written, nSends, closes, exc>>
    /\ UNCHANGED <<edvars, envvars>>

(* the target closed its output and nothing is left to read: pexpect.EOF
   is raised by p.expect and nothing in main catches it *)
ExpectEOF ==
    /\ pc = "AwaitingPrompt"
    /\ ~Search(cmd_prompt, buffer).found
    /\ pending = <<>>
    /\ ~targetAlive
    /\ flag_eof' = TRUE
    /\ before' = buffer
    /\ buffer' = <<>>
    /\ exc' = "EOF"
    /\ pc' = "Crashed"
    /\ UNCHANGED <<cmd_prompt, multiline, spawned, targetAlive, pending,
                   after, printed, bye, answer, editing_mode, edbuf, history,
                   written, nSends, nMatches, closes>>
    /\ UNCHANGED <<edvars, envvars>>

(* the spawn of line 101 keeps pexpect's default timeout, so p.expect
   raises pexpect.TIMEOUT when a live target stays silent; uncaught *)
ExpectTimeout ==
    /\ pc = "AwaitingPrompt"
    /\ ~Search(cmd_prompt, buffer).found
    /\ pending = <<>>
    /\ targetAlive
    /\ before' = buffer
    /\ exc' = "TIMEOUT"
    /\ pc' = "Crashed"
    /\ UNCHANGED <<cmd_prompt, multiline, spawned, targetAlive, pending,
                   buffer, after, flag_eof, printed, bye, answer,
                   editing_mode, edbuf, history, written, nSends, nMatches,
                   closes>>
    /\ UNCHANGED <<edvars, envvars>>

(* main, line 112: print(p.before.decode('utf-8').strip()); then line 113
   starts a new editor read: empty buffer, Vi state reset to insert mode *)
(* mutant: the editor prompt is shown without the output being printed *)
PrintBefore_NoPrint ==
    /\ pc = "Print"
    /\ pc' = "AwaitingInput"
    /\ edbuf' = <<>>
    /\ cursor' = 0
    /\ vi_input' = "INSERT"
    /\ UNCHANGED <<cmd_prompt, multiline, spawned, targetAlive, pending,
                   buffer, before, after, flag_eof, bye, answer,
                   editing_mode, history, written, nSends, nMatches, closes,
                   printed, exc>>
    /\ UNCHANGED envvars

PrintBefore ==
    /\ pc = "Print"
    /\ LET text == Decode(before)
       IN  IF text = DecodeError
           THEN /\ exc' = "UnicodeDecodeError"
                /\ pc' = "Crashed"
                /\ UNCHANGED printed
           ELSE /\ printed' = Strip(text) \o <<"\n">>
                /\ pc' = "AwaitingInput"
                /\ exc' = exc
    /\ edbuf' = <<>>
    /\ cursor' = 0
    /\ vi_input' = "INSERT"
    /\ UNCHANGED <<cmd_prompt, multiline, spawned, targetAlive, pending,
                   buffer, before, after, flag_eof, bye, answer,
                   editing_mode, history, written, nSends, nMatches, closes>>
    /\ UNCHANGED envvars

(* text is inserted at the cursor *)
InsertAt(s, c, t) == Take(s, c) \o t \o Drop(s, c)

(* keys insert text: Emacs mode, or Vi mode while in insert mode *)
InsertMode == editing_mode = "EMACS" \/ vi_input = "INSERT"

(* run, lines 91-98: the user types a text at the start of a line *)
EditorTypeFrom(texts) ==
    /\ pc = "AwaitingInput"
    /\ InsertMode
    /\ \E t \in texts :
          /\ Len(edbuf) + Len(t) <= MaxEdit
          /\ AtLineStart(Take(edbuf, cursor))
          /\ edbuf' = InsertAt(edbuf, cursor, t)
          /\ cursor' = cursor + Len(t)
    /\ UNCHANGED <<pc, cmd_prompt, multiline, spawned, targetAlive, pending,
                   buffer, before, after, flag_eof, printed, bye, answer,
                   editing_mode, history, written, nSends, nMatches, closes,
                   exc>>
    /\ UNCHANGED <<vi_input, envvars>>

EditorType == EditorTypeFrom(TypedTexts)

EditorTypeLines == EditorTypeFrom(TypedLines)

(* str.split("\n") *)
RECURSIVE SplitLines(_, _)
SplitLines(s, cur) ==
    IF s = <<>> THEN <<cur>>
    ELSE IF Head(s) = "\n" THEN <<cur>> \o SplitLines(Tail(s), <<>>)
    ELSE SplitLines(Tail(s), Append(cur, Head(s)))

(* FileHistory.store_string: a comment line with the time, then every line
   of the entry behind a "+" *)
RECURSIVE PlusLines(_)
PlusLines(lines) ==
    IF lines = <<>> THEN <<>>
    ELSE <<"+">> \o Head(lines) \o <<"\n">> \o PlusLines(Tail(lines))

(* mutant: the lines of the entry are written without the "+" *)
StoreString_NoPlus(file, text) ==
    file \o <<"\n", "#", " ", "t", "\n">> \o text \o <<"\n">>

StoreString(file, text) ==
    file \o <<"\n", "#", " ", "t", "\n">> \o PlusLines(SplitLines(text, <<>>))

(* the lines of the file, each with its line terminator *)
RECURSIVE FileLines(_, _)
FileLines(f, cur) ==
    IF f = <<>> THEN (IF cur = <<>> THEN <<>> ELSE <<cur>>)
    ELSE IF Head(f) = "\n"
         THEN <<Append(cur, "\n")>> \o FileLines(Tail(f), <<>>)
         ELSE FileLines(Tail(f), Append(cur, Head(f)))

RECURSIVE Join(_)
Join(lines) == IF lines = <<>> THEN <<>> ELSE Head(lines) \o Join(Tail(lines))

(* FileHistory.load_history_strings, in the order of History.get_strings
   (oldest first): "+" lines are collected, any other line ends an entry,
   and the entry is the collected lines without the last newline *)
RECURSIVE LoadAcc(_, _, _)
LoadAcc(lines, cur, strings) ==
    LET added == IF cur = <<>> THEN strings
                 ELSE Append(strings, Take(Join(cur), Len(Join(cur)) - 1))
    IN  IF lines = <<>> THEN added
        ELSE IF Head(Head(lines)) = "+"
             THEN LoadAcc(Tail(lines), Append(cur, Tail(Head(lines))), strings)
             ELSE LoadAcc(Tail(lines), <<>>, added)

LoadHistory(file) == LoadAcc(FileLines(file, <<>>), <<>>, <<>>)

(* Buffer.append_to_history: an empty text, or a text equal to the newest
   entry, is not added *)
HistorySkips(h, text) ==
    text = <<>> \/ (IF h = <<>> THEN FALSE ELSE h[Len(h)] = text)

(* session.prompt returns the buffer: validate_and_handle hands the text to
   the caller, appends it to the history (FileHistory of line 107) and
   resets the buffer *)
(* mutant: only the first line of the entry is returned *)
Accept_FirstLine ==
    /\ answer' = Head(SplitLines(edbuf, <<>>))
    /\ IF HistorySkips(history, edbuf)
       THEN UNCHANGED <<history, histFile>>
       ELSE /\ history' = Append(history, edbuf)
            /\ histFile' = StoreString(histFile, edbuf)
    /\ edbuf' = <<>>
    /\ cursor' = 0
    /\ pc' = "Dispatch"

Accept ==
    /\ answer' = edbuf
    /\ IF HistorySkips(history, edbuf)
       THEN UNCHANGED <<history, histFile>>
       ELSE /\ history' = Append(history, edbuf)
            /\ histFile' = StoreString(histFile, edbuf)
    /\ edbuf' = <<>>
    /\ cursor' = 0
    /\ pc' = "Dispatch"

(* run, line 92: in insert mode Enter accepts the line, or adds a line when
   multiline=True (the user adds a line only at the end of the text, after
   typing something on the current line); in Vi navigation mode Enter always accepts *)
EditorEnter ==
    /\ pc = "AwaitingInput"
    /\ IF multiline /\ InsertMode
       THEN /\ Len(edbuf) + 1 <= MaxEdit
            /\ NumLines(edbuf) < MaxLines
            /\ cursor = Len(edbuf)
            /\ ~AtLineStart(edbuf)
            /\ edbuf' = InsertAt(edbuf, cursor, <<"\n">>)
            /\ cursor' = cursor + 1
            /\ UNCHANGED <<history, histFile, answer, pc>>
       ELSE Accept
    /\ UNCHANGED <<cmd_prompt, multiline, spawned, targetAlive, pending,
                   buffer, before, after, flag_eof, printed, bye,
                   editing_mode, written, nSends, nMatches, closes, exc>>
    /\ UNCHANGED <<vi_input, histTouched, spawnErr>>

(* run, line 92 and the help of line 19: Alt-Enter (Escape, Enter) sends a
   multiline entry; in Vi mode the Escape first leaves insert mode *)
EditorForceSubmit ==
    /\ pc = "AwaitingInput"
    /\ multiline
    /\ InsertMode
    /\ Accept
    /\ vi_input' = IF editing_mode = "VI" THEN "NAVIGATION" ELSE vi_input
    /\ UNCHANGED <<cmd_prompt, multiline, spawned, targetAlive, pending,
                   buffer, before, after, flag_eof, printed, bye,
                   editing_mode, written, nSends, nMatches, closes, exc>>
    /\ UNCHANGED <<histTouched, spawnErr>>

(* Escape in Vi insert mode: navigation mode, the cursor steps back one
   position unless it is at the start of its line *)
ViEscape ==
    /\ pc = "AwaitingInput"
    /\ editing_mode = "VI"
    /\ vi_input = "INSERT"
    /\ vi_input' = "NAVIGATION"
    /\ cursor' = IF AtLineStart(Take(edbuf, cursor)) THEN cursor ELSE cursor - 1
    /\ UNCHANGED <<pc, cmd_prompt, multiline, spawned, targetAlive, pending,
                   buffer, before, after, flag_eof, printed, bye, answer,
                   editing_mode, edbuf, history, written, nSends, nMatches,
                   closes, exc>>
    /\ UNCHANGED envvars

(* run, lines 74-77: the other editing mode *)
ToggleOf(m) == IF m = "VI" THEN "EMACS" ELSE "VI"

(* run, lines 69-77: F4 *)
(* mutant: F4 also empties the buffer *)
ToggleMode_ClearsBuffer ==
    /\ pc = "AwaitingInput"
    /\ editing_mode' = ToggleOf(editing_mode)
    /\ edbuf' = <<>>
    /\ cursor' = 0
    /\ UNCHANGED <<pc, cmd_prompt, multiline, spawned, targetAlive, pending,
                   buffer, before, after, flag_eof, printed, bye, answer,
                   history, written, nSends, nMatches, closes, exc>>
    /\ UNCHANGED <<vi_input, envvars>>

ToggleMode ==
    /\ pc = "AwaitingInput"
    /\ editing_mode' = ToggleOf(editing_mode)
    /\ UNCHANGED <<pc, cmd_prompt, multiline, spawned, targetAlive, pending,
                   buffer, before, after, flag_eof, printed, bye, answer,
                   edbuf, history, written, nSends, nMatches, closes, exc>>
    /\ UNCHANGED <<edvars, envvars>>

(* run, lines 79-82: Ctrl-D, event.app.exit() makes session.prompt return None *)
EditorExit ==
    /\ pc = "AwaitingInput"
    /\ answer' = None
    /\ pc' = "Dispatch"
    /\ UNCHANGED <<cmd_prompt, multiline, spawned, targetAlive, pending,
                   buffer, before, after, flag_eof, printed, bye,
                   editing_mode, edbuf, history, written, nSends, nMatches,
                   closes, exc>>
    /\ UNCHANGED <<edvars, envvars>>

(* Ctrl-C in session.prompt raises KeyboardInterrupt out of run and main *)
EditorInterrupt ==
    /\ pc = "AwaitingInput"
    /\ exc' = "KeyboardInterrupt"
    /\ pc' = "Crashed"
    /\ UNCHANGED <<cmd_prompt, multiline, spawned, targetAlive, pending,
                   buffer, before, after, flag_eof, printed, bye, answer,
                   editing_mode, edbuf, history, written, nSends, nMatches,
                   closes>>
    /\ UNCHANGED <<edvars, envvars>>

(* main, line 114: (answer is None) or (answer == 'exit') *)
(* mutant: only the missing answer ends the loop *)
IsExit_NoneOnly(ans) == ans = None

(* mutant: surrounding whitespace is ignored when looking for 'exit' *)
IsExit_Trimmed(ans) == ans = None \/ Strip(ans) = EXIT

IsExit(ans) == ans = None \/ ans = EXIT

(* a line-oriented target answers every line it receives with one prompt *)
RECURSIVE Repeat(_, _)
Repeat(s, n) == IF n = 0 THEN <<>> ELSE s \o Repeat(s, n - 1)

PerLine(ans) == Repeat(cmd_prompt, NumLines(ans))

(* main, line 116 and back to line 111: p.sendline(answer) writes the
   encoded text and os.linesep, the target answers with one of replies, and
   the loop waits for the next prompt *)
(* mutant: the line is stripped before it is sent *)
SendTo_Stripped(replies) ==
    /\ written' = Encode(Strip(answer)) \o LINESEP
    /\ nSends' = nSends + 1
    /\ \E out \in replies : pending' = pending \o out
    /\ pc' = "AwaitingPrompt"

SendTo(replies) ==
    /\ written' = Encode(answer) \o LINESEP
    /\ nSends' = nSends + 1
    /\ \E out \in replies : pending' = pending \o out
    /\ pc' = "AwaitingPrompt"

(* mutant: the loop asks for the next line without waiting for a prompt *)
SendAndLoop_NoExpect ==
    /\ written' = Encode(answer) \o LINESEP
    /\ nSends' = nSends + 1
    /\ \E out \in Outputs : pending' = pending \o out
    /\ pc' = "AwaitingInput"

SendAndLoop == SendTo(Outputs)

SendAndLoopLines == SendTo({PerLine(answer)})

(* main, lines 114-119: break on None or 'exit', then the closing message
   and p.close(); otherwise p.sendline(answer), which raises OSError when
   the target is gone; nothing in main catches it *)
DispatchWith(send) ==
    /\ pc = "Dispatch"
    /\ IF IsExit(answer)
       THEN /\ bye' = TRUE
            /\ closes' = closes + 1
            /\ targetAlive' = FALSE
            /\ pc' = "Terminated"
            /\ UNCHANGED <<written, nSends, pending, exc>>
       ELSE IF ~targetAlive
       THEN /\ exc' = "OSError"
            /\ pc' = "Crashed"
            /\ UNCHANGED <<bye, closes, targetAlive, written, nSends,
                           pending>>
       ELSE /\ nSends < MaxSends
            /\ send
            /\ UNCHANGED <<bye, closes, targetAlive, exc>>
    /\ UNCHANGED <<cmd_prompt, multiline, spawned, buffer, before, after,
                   flag_eof, printed, answer, editing_mode, edbuf, history,
                   nMatches>>
    /\ UNCHANGED <<edvars, envvars>>

Dispatch == DispatchWith(SendAndLoop)

DispatchLines == DispatchWith(SendAndLoopLines)

(* ------------------------------- claims -------------------------------- *)
IsLiteral(p) == \A i \in 1..Len(p) : p[i] \notin {"|", "."}

(* the target output that the wait which just matched had to work on *)
WholeStream == before \o after \o buffer \o pending

(* position of the first occurrence of the string p in s, 0 when absent *)
FirstOccurrence(p, s) ==
    LET occ == { i \in 1..(Len(s) - Len(p) + 1) : SubSeq(s, i, i + Len(p) - 1) = p }
    IN  IF occ = {} THEN 0 ELSE CHOOSE i \in occ : \A j \in occ : i <= j

(* s is matched, from its first to its last byte, by one alternative of p *)
FullMatch(p, s) ==
    \E a \in 1..Len(Alternatives(p)) :
        LET alt == Alternatives(p)[a]
        IN  /\ Len(s) = Len(alt)
            /\ \A k \in 1..Len(alt) : alt[k] = "." \/ alt[k] = s[k]

(* C1: strict alternation. The number of sends never exceeds the number of
   prompt matches and the two differ by at most one; the target is waited
   on exactly when every match has been answered by a send, the user
   exactly when one match is still unanswered. *)
C1_StrictAlternation ==
    /\ nSends <= nMatches
    /\ nMatches <= nSends + 1
    /\ ~(pc = "AwaitingPrompt" /\ pc = "AwaitingInput")
    /\ pc = "AwaitingPrompt" => nMatches = nSends
    /\ pc = "AwaitingInput" => nMatches = nSends + 1

C1_Witness == pc = "AwaitingInput" /\ nSends = 1 /\ nMatches = 2

(* C2: an answer of None (Ctrl-D) or 'exit' takes the loop to Terminated in
   the same iteration without anything being sent, whatever the editing
   mode and the multiline flag, and nothing happens after Terminated. *)
C2_ExitTerminates ==
    [][ /\ (pc = "Dispatch" /\ (answer = None \/ answer = EXIT))
            => (pc' = "Terminated" /\ nSends' = nSends /\ written' = written
                /\ bye' /\ closes' = closes + 1)
        /\ (pc = "AwaitingInput" /\ answer' \in {None, EXIT} /\ pc' # pc)
            => (pc' \in {"Dispatch", "Crashed"} /\ nSends' = nSends)
        /\ pc = "Terminated" => UNCHANGED vars ]_vars

C2_Witness ==
    /\ pc = "Terminated"
    /\ answer = EXIT
    /\ editing_mode = "VI"
    /\ multiline
    /\ nSends = 1

(* C3: when the target's stream ends before the prompt matches, the loop
   reaches Terminated gracefully: the child is closed, the closing message
   is printed and no error is reported. *)
C3_EofGraceful ==
    flag_eof => (pc = "Terminated" /\ closes = 1 /\ bye /\ exc = NoExc)

(* C4: on every exit path after the spawn the child is closed exactly once. *)
C4_ClosedExactlyOnce ==
    (spawned /\ pc \in {"Terminated", "Crashed"}) => closes = 1

(* C5: a send that fails because the target is gone does not propagate; the
   loop goes to Terminated as for the end of the stream. *)
C5_SendFailureContained ==
    [][ (pc = "Dispatch" /\ answer # None /\ answer # EXIT /\ ~targetAlive)
            => (pc' = "Terminated" /\ closes' = closes + 1 /\ bye'
                /\ exc' = NoExc) ]_vars

(* C6: only a prompt match or the end of the target's stream takes the loop
   out of AwaitingPrompt; the passage of time never does. *)
C6_NoTimeout ==
    [][ (pc = "AwaitingPrompt" /\ pc' # "AwaitingPrompt")
            => (nMatches' = nMatches + 1 \/ flag_eof') ]_vars

(* C7: pre-prompt output that is not valid UTF-8 does not end the session;
   the loop proceeds to AwaitingInput and no decode error surfaces. *)
C7_DecodeRecovered ==
    [][ (pc = "Print" /\ Decode(before) = DecodeError)
            => (pc' = "AwaitingInput" /\ exc' = NoExc) ]_vars

(* C8 as stated: the text written to the terminal is verbatim the target
   output read before the match, nothing removed and nothing added. *)
C8_Verbatim ==
    pc = "AwaitingInput" => printed = Decode(before)

(* C8 as amended: the text written to the terminal is the decoded pre-match
   output without its leading and trailing whitespace, followed by one
   newline; the characters in between are unchanged and no text matching
   the prompt is part of it. *)
C8_StrippedPlusNewline ==
    pc = "AwaitingInput" =>
        LET text == Decode(before)
        IN  /\ text # DecodeError
            /\ ~Search(cmd_prompt, before).found
            /\ \E i \in 1..(Len(text) + 1), j \in 0..Len(text) :
                  /\ i <= j + 1
                  /\ \A k \in 1..(i - 1) : IsSpace(text[k])
                  /\ \A k \in (j + 1)..Len(text) : IsSpace(text[k])
                  /\ i <= j => (~IsSpace(text[i]) /\ ~IsSpace(text[j]))
                  /\ printed = SubSeq(text, i, j) \o <<"\n">>

C8_Witness ==
    /\ pc = "AwaitingInput"
    /\ before = <<" ", "xC3", "xA9", "\n">>
    /\ printed = <<"e'", "\n">>

(* C9 as stated: for every prompt pattern, the wait ends with the same
   pre-match text and the same outcome as a single search of the whole
   stream would give, however the stream was split into chunks. *)
C9_ChunkInvariance ==
    /\ pc = "Print" =>
          LET m == Search(cmd_prompt, WholeStream)
          IN  m.found /\ m.start = Len(before) + 1 /\ m.end = m.start + Len(after)
    /\ flag_eof => ~Search(cmd_prompt, before).found

(* C9 as amended: for every prompt that is a plain string, without regular
   expression operators, the wait ends at the first occurrence of the prompt
   in the whole stream, however the stream was split into chunks, and ends
   with the end of the stream only when the prompt does not occur in it. *)
C9_ChunkInvarianceLiteral ==
    IsLiteral(cmd_prompt) =>
        /\ pc = "Print" =>
              /\ FirstOccurrence(cmd_prompt, WholeStream) = Len(before) + 1
              /\ after = cmd_prompt
        /\ flag_eof => FirstOccurrence(cmd_prompt, before) = 0

(* the wait has matched and a read boundary falls inside the next prompt *)
C9_Witness ==
    /\ cmd_prompt = <<">", " ">>
    /\ pc = "Print"
    /\ before = <<>>
    /\ buffer = <<">">>
    /\ pending = <<" ">>

(* C10: the wait reports a match only when the accumulated output contains
   the complete prompt: the matched text is matched in full by the pattern,
   it is the pattern itself for a plain string, and it was taken from the
   output accumulated so far. *)
C10_NoPartialMatch ==
    [][ nMatches' # nMatches =>
          /\ FullMatch(cmd_prompt, after')
          /\ IsLiteral(cmd_prompt) => after' = cmd_prompt
          /\ before' \o after' \o buffer' \o pending' = buffer \o pending ]_vars

C10_Witness ==
    /\ cmd_prompt = <<"d", "b", ">", " ">>
    /\ pc = "Print"
    /\ nMatches = 1
    /\ before = <<>>
    /\ after = <<"d", "b", ">", " ">>
    /\ buffer = <<>>


(* C11: F4 switches Vi to Emacs and Emacs to Vi, so two presses in a row
   restore the mode; the step changes the editing mode and nothing else:
   the buffer, the cursor offset, the Vi input mode, the answer, the
   history and the state of the loop stay as they are, and nothing is
   submitted. *)
C11_ToggleOnlyMode ==
    [][ editing_mode' # editing_mode =>
          /\ pc = "AwaitingInput"
          /\ editing_mode \in {"VI", "EMACS"}
          /\ editing_mode' = (IF editing_mode = "VI" THEN "EMACS" ELSE "VI")
          /\ ToggleOf(editing_mode') = editing_mode
          /\ UNCHANGED <<edbuf, cursor, vi_input, answer, history, histFile,
                         pc, nSends, nMatches, written, printed, pending,
                         buffer, before, after, targetAlive, closes, bye,
                         exc>> ]_vars

C11_Witness ==
    /\ pc = "AwaitingInput"
    /\ editing_mode = "EMACS"
    /\ vi_input = "NAVIGATION"
    /\ edbuf = <<"l", "s">>
    /\ cursor = 1

(* the editor read returns a line to the loop *)
AcceptStep == pc = "AwaitingInput" /\ pc' = "Dispatch" /\ answer' # None

(* C12 as stated: every accepted line is appended to the history before it
   is returned, and reloading the history file gives exactly the accepted
   lines in order. *)
C12_EveryLineStored ==
    [][ AcceptStep =>
          /\ history' = Append(history, answer')
          /\ LoadHistory(histFile') = Append(history, answer') ]_vars

(* C12: an accepted line that is not empty and differs from the newest
   history entry is appended to the history and to its file before the
   line is returned; an empty line or an immediate repetition leaves both
   as they are; reloading the file always gives exactly the entries of the
   history, in order. *)
C12_HistoryRoundTrip ==
    [][ /\ (histFile' # histFile \/ history' # history) =>
              LoadHistory(histFile') = history'
        /\ AcceptStep =>
              IF answer' = <<>> \/ (history # <<>> /\ history[Len(history)] = answer')
              THEN history' = history /\ histFile' = histFile
              ELSE /\ history' = Append(history, answer')
                   /\ LoadHistory(histFile') = Append(history, answer')
        /\ ~AcceptStep => (history' = history /\ histFile' = histFile) ]_vars

C12_Witness ==
    /\ pc = "Dispatch"
    /\ nSends = 1
    /\ answer = <<"l", "s">>
    /\ history = <<answer>>
    /\ LoadHistory(histFile) = history

(* C13 as stated: with multiline on, a plain submit never finishes the
   entry. *)
C13_PlainSubmitNeverFinishes ==
    [][ (multiline /\ EditorEnter) => pc' = "AwaitingInput" ]_vars

(* C13: with multiline on, a plain submit in insert mode (Emacs mode or Vi
   insert mode) adds a line and the read goes on; the entry is ended by the
   force-submit, or by a plain submit in Vi navigation mode, and what is
   returned is the whole text, its lines joined by newlines. With
   multiline off a plain submit returns the line. *)
C13_MultilineSubmit ==
    [][ /\ (multiline /\ InsertMode /\ EditorEnter) =>
              /\ pc' = "AwaitingInput"
              /\ edbuf' = edbuf \o <<"\n">>
              /\ answer' = answer
        /\ (multiline /\ ~InsertMode /\ EditorEnter) =>
              (pc' = "Dispatch" /\ answer' = edbuf)
        /\ EditorForceSubmit => (pc' = "Dispatch" /\ answer' = edbuf)
        /\ (~multiline /\ EditorEnter) =>
              (pc' = "Dispatch" /\ answer' = edbuf /\ NumLines(edbuf) = 1)
        /\ (AcceptStep /\ NumLines(answer') > 1) => multiline ]_vars

C13_Witness ==
    /\ pc = "Dispatch"
    /\ multiline
    /\ editing_mode = "EMACS"
    /\ answer = <<"l", "s", "\n", "l", "s">>

(* C14: a submitted line other than the sentinel, handed to a target that
   is still running, is written once: the bytes written are the encoded
   line, whatever it contains (the empty line too), and one line
   terminator; one send is counted and the loop waits for the prompt.
   Nothing is written to the target by any other step. *)
C14_ForwardedOnce ==
    [][ /\ (pc = "Dispatch" /\ answer \notin {None, EXIT} /\ targetAlive) =>
              /\ written' = Encode(answer) \o <<"\n">>
              /\ nSends' = nSends + 1
              /\ pc' = "AwaitingPrompt"
        /\ (nSends' # nSends \/ written' # written) =>
              /\ pc = "Dispatch"
              /\ answer \notin {None, EXIT}
              /\ nSends' = nSends + 1
              /\ written' = Encode(answer) \o <<"\n">> ]_vars

C14_Witness ==
    /\ pc = "AwaitingPrompt"
    /\ nSends = 1
    /\ answer = <<>>
    /\ written = <<"\n">>

(* C15 as stated: when the target cannot be started (command not found or
   invalid working directory) the program stops before the loop: it never
   waits for a prompt, reads from the editor or sends, and the history
   location is not touched. *)
C15_SpawnFailureFatal ==
    spawnErr # "none" =>
        /\ pc = "Crashed"
        /\ ~histTouched
        /\ nMatches = 0
        /\ nSends = 0
        /\ ~flag_eof

(* C16: the editor is entered only from a prompt match whose pre-match
   output has just been printed, so whenever the user is asked for input
   the output of the latest match is on the terminal; the loop starts by
   waiting for the prompt, and the editor is read only after a match. *)
C16_PrintedBeforeInput ==
    [][ /\ (pc' = "AwaitingInput" /\ pc # "AwaitingInput") =>
              /\ pc = "Print"
              /\ before' = before
              /\ printed' = Strip(Decode(before)) \o <<"\n">>
        /\ pc' = "AwaitingInput" =>
              /\ nMatches' >= 1
              /\ nMatches' = nSends' + 1
              /\ printed' = Strip(Decode(before')) \o <<"\n">>
        /\ pc = "Setup" => pc' \in {"AwaitingPrompt", "Crashed"}
        /\ pc' = "Print" => (pc = "AwaitingPrompt" /\ nMatches' = nMatches + 1)
        /\ (answer' # answer \/ edbuf' # edbuf) => pc \in {"AwaitingInput", "Print"} ]_vars

C16_Witness ==
    /\ pc = "AwaitingInput"
    /\ nMatches = 2
    /\ nSends = 1
    /\ before = <<"d", "b">>
    /\ printed = <<"d", "b", "\n">>

(* C17 as stated: the prompt is looked for as a literal string, whatever
   characters it holds: a wait that matches has matched exactly the prompt
   string, and the pre-match text is everything before the first
   occurrence of that string. *)
C17_LiteralSubstring ==
    [][ nMatches' # nMatches =>
          /\ after' = cmd_prompt
          /\ FirstOccurrence(cmd_prompt, before' \o after') = Len(before') + 1 ]_vars

(* C18 as stated, for its multi-line case: when the user is asked for input
   after an entry of several lines went out in one send to a target that
   prints one prompt per line, the target has no prompt out that the loop
   has not matched, neither read nor still to be read. *)
C18_NoPromptOutstanding ==
    (pc = "AwaitingInput" /\ nSends >= 1 /\ NumLines(answer) > 1) =>
        ~Search(cmd_prompt, buffer \o pending).found

(* C19: while the target is running, every submitted line other than
   exactly 'exit' (the empty line, 'exit' with surrounding whitespace,
   'EXIT', an entry of several lines one of which is 'exit') is forwarded
   and leaves the loop waiting for the prompt; the loop ends after an
   editor read only on Ctrl-D or exactly 'exit', without writing; and
   'exit' alone is never written to the target. *)
C19_OnlyExactExit ==
    [][ /\ (pc = "Dispatch" /\ answer \notin {None, EXIT} /\ targetAlive) =>
              /\ pc' = "AwaitingPrompt"
              /\ nSends' = nSends + 1
              /\ written' = Encode(answer) \o <<"\n">>
        /\ (pc = "Dispatch" /\ pc' = "Terminated") =>
              (answer \in {None, EXIT} /\ written' = written)
        /\ written' # EXIT \o <<"\n">> ]_vars

C19_Witness ==
    /\ pc = "AwaitingPrompt"
    /\ nSends = 1
    /\ answer = <<"e", "x", "i", "t", " ">>
    /\ written = <<"e", "x", "i", "t", " ", "\n">>

Next ==
    \/ Spawn
    \/ Setup
    \/ TargetExit
    \/ ExpectExisting
    \/ ExpectRead
    \/ ExpectEOF
    \/ ExpectTimeout
    \/ PrintBefore
    \/ EditorType
    \/ EditorEnter
    \/ EditorForceSubmit
    \/ ToggleMode
    \/ ViEscape
    \/ EditorExit
    \/ EditorInterrupt
    \/ Dispatch

Spec == Init /\ [][Next]_vars

(* the same program with a literal prompt in front of a target that, once
   started, answers every line with one prompt *)
InitLines == InitWith(LinePrompts)

NextLines ==
    \/ Spawn
    \/ Setup
    \/ TargetExit
    \/ ExpectExisting
    \/ ExpectRead
    \/ ExpectEOF
    \/ ExpectTimeout
    \/ PrintBefore
    \/ EditorTypeLines
    \/ EditorEnter
    \/ EditorForceSubmit
    \/ ToggleMode
    \/ ViEscape
    \/ EditorExit
    \/ EditorInterrupt
    \/ DispatchLines

SpecLines == InitLines /\ [][NextLines]_vars
====
